---- MODULE Spec2Model ----
(***************************************************************************)
(* Model of the authenticated-request pipeline of ModernBankingClient      *)
(* (banking_client.py): the retry loop _make_request_with_retry, the token *)
(* cache AuthenticationManager.get_token, and the operations built on      *)
(* them (validate_account, transfer_funds).                                *)
(*                                                                         *)
(* Every coroutine is modelled per task: a task's position in a coroutine  *)
(* is a program counter, and one action is the code between two awaits.    *)
(* Times are integers: delays in tenths of a second (retry_delay 0.1 is 1),*)
(* the wall clock in minutes.  retry_delay * 2**attempt is exact in        *)
(* floating point (a multiplication by a power of two), so the integer     *)
(* product models it without loss.                                         *)
(***************************************************************************)
EXTENDS Integers, Sequences, FiniteSets, TLC

\* ---------------------------------------------------------------- bounds
NumTasks == 2
MaxRetriesBound == 3
MaxCalls == 2
MaxTokenCalls == 3
MaxTime == 120
MaxSessions == 2

Tasks == 1..NumTasks
\* the task that runs the calls of the sequential specifications
Sequential == {1}
\* the tasks that run the calls of the concurrent specifications
Concurrent == {1, 2}

\* BankingConfig.max_retries (ge=0) and BankingConfig.retry_delay (ge=0.1),
\* in tenths of a second
MaxRetriesValues == 0..MaxRetriesBound
RetryDelays == {1, 5}

\* HTTP statuses the remote service answers with
Statuses == {200, 400, 404, 500, 503}

\* what a dispatch can receive: a response with a status, an
\* aiohttp.ClientError, or the session's total timeout
Answered(s) == <<"status", s>>
ClientError == <<"ClientError", 0>>
TimeoutError == <<"TimeoutError", 0>>

NoResult == [kind |-> "none"]
Response(s) == [kind |-> "response", status |-> s]
Raised(type, msg) == [kind |-> "error", type |-> type, msg |-> msg]
ReturnedNone == [kind |-> "None"]

\* the endpoints of the remote service
ValidateUrl(acct) == <<"GET", "/accounts/validate", acct>>
BalanceUrl(acct) == <<"GET", "/accounts/balance", acct>>
HistoryUrl(acct) == <<"GET", "/transactions/history", acct>>
TransferUrl == <<"POST", "/transfer", "">>
AuthUrl(scope) == <<"POST", "/authToken", scope>>
NoToken == "None"

\* AuthenticationManager: scopes, the tokens the service issues, and what an
\* authentication request can be answered with.  The clock is in minutes.
Scopes == {"transfer", "enquiry"}
Tokens == {"tokA", "tokB"}
MissingField == "None"
TokenExpiryBuffer == 5
TokenLifetime == 60
TickSteps == {5, 50}
AuthStatuses == {200, 401}
AuthAnswers ==
    {<<200, tok>> : tok \in Tokens \cup {"", MissingField}}
        \cup {<<st, MissingField>> : st \in AuthStatuses \ {200}}
\* account identifiers are strings over a small alphabet
Chars == {" ", "a", "A"}
RawAccounts == {<<>>, <<" ">>, <<"a">>, <<" ", "A", "a", " ">>}
\* what the body of a 200 answer of /accounts/validate can be: an object
\* whose isValid is true, false or missing, or a body that cannot be read
ValidateBodies == {"valid", "invalid", "noIsValid", "unreadable"}
ReadableBodies == {"readable", "unreadable"}

NoEntry == [token |-> NoToken, expiry |-> 0]
Entry(tok, exp) == [token |-> tok, expiry |-> exp]
TokenValue(tok) == [kind |-> "token", token |-> tok]

VARIABLES
    max_retries,     \* config.max_retries
    retry_delay,     \* config.retry_delay
    request_count,   \* ModernBankingClient._request_count
    calls,           \* number of top-level calls started (bounded)
    wire,            \* requests sent on the session by the current top-level call, in order
    auth_count,      \* authentication requests sent on the session so far
    dispatch_count,  \* requests the pipeline has handed to the session so far
    ppc,             \* per task: position in _make_request_with_retry
    attempt,         \* per task: the loop variable attempt
    purl,            \* per task: method/url of the pipeline call
    pheaders,        \* per task: the Authorization token passed in headers
    held,            \* per task: a response of the session is open (inside async with)
    sent,            \* per task: dispatches this call has made
    outcomes,        \* per task: what each dispatch of this call received
    sleeps,          \* per task: the delays this call slept, in order
    presult,         \* per task: what the pipeline call returned or raised
    now,             \* datetime.now(), in minutes
    token_cache,     \* AuthenticationManager._token_cache: scope -> entry
    tpc,             \* per task: position in get_token
    tscope,          \* per task: the scope argument of get_token
    tsent,           \* per task: authentication requests this call has issued
    tanswer,         \* per task: what the authentication request received
    tresult,         \* per task: what get_token returned
    vpc,             \* per task: position in validate_account
    vacct,           \* per task: account_id, after normalisation
    vresult,         \* per task: what validate_account returned or raised
    opc,             \* per task: position in transfer_funds
    oreq,            \* per task: the TransferRequest argument
    oauth,           \* per task: the use_auth argument
    ofrom,           \* per task: outcome of the source validation
    oto,             \* per task: outcome of the destination validation
    oresult,         \* per task: what transfer_funds returned or raised
    bpc,             \* per task: position in get_account_balance
    bacct,           \* per task: account_id of get_account_balance, after normalisation
    bresult,         \* per task: what get_account_balance returned or raised
    hpc,             \* per task: position in get_transaction_history
    hacct,           \* per task: account_id of get_transaction_history
    hresult,         \* per task: what get_transaction_history returned or raised
    cargs,           \* the arguments of the last TransferRequest(...) call
    creq,            \* what that call gave: the request, or the error raised
    session,         \* ModernBankingClient.session: 0 is None, else the number of a session
    sessions,        \* the ClientSession objects created so far: each open or closed
    cm,              \* where the caller is relative to the block of async with client
    cmexc            \* the exception that left the block, handed to __aexit__

pvars == <<ppc, attempt, purl, pheaders, held, sent, outcomes, sleeps, presult>>
cvars == <<max_retries, retry_delay>>
rvars == <<cargs, creq>>
lvars == <<session, sessions, cm, cmexc>>
\* what the session has seen
svars == <<wire, auth_count, dispatch_count>>
tvars == <<token_cache, tpc, tscope, tsent, tanswer, tresult>>
qvars == <<bpc, bacct, bresult, hpc, hacct, hresult>>
ovars == <<vpc, vacct, vresult, opc, oreq, oauth, ofrom, oto, oresult, qvars>>

\* ---------------------------------------------------------------- pipeline
\* a backoff that grows linearly instead of doubling
BackoffLinear(rd, a) == rd * (a + 1)

\* delay = self.config.retry_delay * (2 ** attempt)
Backoff(rd, a) == rd * (2 ^ a)

\* entry of _make_request_with_retry(method, url, headers=...)
PipelineEnter(t, url, hdr) ==
    /\ ppc' = [ppc EXCEPT ![t] = "pending"]
    /\ attempt' = [attempt EXCEPT ![t] = 0]
    /\ purl' = [purl EXCEPT ![t] = url]
    /\ pheaders' = [pheaders EXCEPT ![t] = hdr]
    /\ held' = [held EXCEPT ![t] = FALSE]
    /\ sent' = [sent EXCEPT ![t] = 0]
    /\ outcomes' = [outcomes EXCEPT ![t] = <<>>]
    /\ sleeps' = [sleeps EXCEPT ![t] = <<>>]
    /\ presult' = [presult EXCEPT ![t] = NoResult]

\* the caller has taken the result of the finished call; the frame of the
\* coroutine is gone
PipelineLeave(t) ==
    /\ ppc' = [ppc EXCEPT ![t] = "idle"]
    /\ attempt' = [attempt EXCEPT ![t] = 0]
    /\ purl' = [purl EXCEPT ![t] = <<>>]
    /\ pheaders' = [pheaders EXCEPT ![t] = NoToken]
    /\ sent' = [sent EXCEPT ![t] = 0]
    /\ outcomes' = [outcomes EXCEPT ![t] = <<>>]
    /\ sleeps' = [sleeps EXCEPT ![t] = <<>>]
    /\ presult' = [presult EXCEPT ![t] = NoResult]
    /\ UNCHANGED held

\* a counter that counts calls, not attempts
CountedOncePerCall(c, a) == IF a = 0 THEN c + 1 ELSE c

\* self._request_count += 1, in the loop body of attempt a; nothing is
\* awaited between the read and the write
Counted(c, a) == c + 1

\* self._request_count += 1; session.request(method, url, **kwargs)
Dispatch(t) ==
    /\ ppc[t] = "pending"
    /\ request_count' = Counted(request_count, attempt[t])
    /\ dispatch_count' = dispatch_count + 1
    /\ wire' = Append(wire, [task |-> t, url |-> purl[t], auth |-> pheaders[t]])
    /\ sent' = [sent EXCEPT ![t] = @ + 1]
    /\ ppc' = [ppc EXCEPT ![t] = "inflight"]
    /\ UNCHANGED <<cvars, rvars, lvars, calls, auth_count, attempt, purl, pheaders, held, outcomes, sleeps, presult>>

\* a handler that gives up on the first network failure
HandleClientErrorNoRetry(t) ==
    /\ ppc' = [ppc EXCEPT ![t] = "raised"]
    /\ presult' = [presult EXCEPT ![t] = Raised("BankingClientError", "Network error")]
    /\ sleeps' = sleeps

\* the except aiohttp.ClientError handler, entered with the response closed
HandleClientError(t) ==
    IF attempt[t] = max_retries
    THEN /\ ppc' = [ppc EXCEPT ![t] = "raised"]
         /\ presult' = [presult EXCEPT ![t] = Raised("BankingClientError", "Network error")]
         /\ sleeps' = sleeps
    ELSE /\ ppc' = [ppc EXCEPT ![t] = "sleepNet"]
         /\ sleeps' = [sleeps EXCEPT ![t] = Append(@, Backoff(retry_delay, attempt[t]))]
         /\ presult' = presult

\* variants of the two tests below, as a slip in the code would make them
LastAttemptEarly(a, mr) == a + 1 = mr
LastAttemptNever(a, mr) == FALSE
NotRetriedBelow400(s) == s < 400
NotRetriedOnly200(s) == s = 200

\* if attempt == self.config.max_retries: the 5xx branch raises instead of
\* sleeping
LastAttempt(a, mr) == a = mr

\* if response.status < 500: return response
NotRetried(s) == s < 500

\* a response arrives: the body of the async with block
Respond(t, s) ==
    /\ ppc[t] = "inflight"
    /\ outcomes' = [outcomes EXCEPT ![t] = Append(@, Answered(s))]
    /\ IF NotRetried(s)
       THEN \* return response; leaving the async with releases it
            /\ ppc' = [ppc EXCEPT ![t] = "returned"]
            /\ presult' = [presult EXCEPT ![t] = Response(s)]
            /\ held' = [held EXCEPT ![t] = FALSE]
            /\ sleeps' = sleeps
       ELSE IF LastAttempt(attempt[t], max_retries)
       THEN \* response.raise_for_status() raises ClientResponseError, an
            \* aiohttp.ClientError: the handler below the loop body takes it
            /\ HandleClientError(t)
            /\ held' = [held EXCEPT ![t] = FALSE]
       ELSE \* await asyncio.sleep(delay), still inside the async with
            /\ ppc' = [ppc EXCEPT ![t] = "sleep5xx"]
            /\ sleeps' = [sleeps EXCEPT ![t] = Append(@, Backoff(retry_delay, attempt[t]))]
            /\ held' = [held EXCEPT ![t] = TRUE]
            /\ presult' = presult
    /\ UNCHANGED <<cvars, rvars, lvars, request_count, calls, svars, attempt, purl, pheaders, sent>>

\* session.request raises aiohttp.ClientError (connection refused, reset, ...)
NetworkFail(t) ==
    /\ ppc[t] = "inflight"
    /\ outcomes' = [outcomes EXCEPT ![t] = Append(@, ClientError)]
    /\ HandleClientError(t)
    /\ UNCHANGED <<cvars, rvars, lvars, request_count, calls, svars, attempt, purl, pheaders, held, sent>>

\* the ClientTimeout(total=...) of the session fires: asyncio.TimeoutError,
\* which is not an aiohttp.ClientError, leaves the coroutine uncaught
Timeout(t) ==
    /\ ppc[t] = "inflight"
    /\ outcomes' = [outcomes EXCEPT ![t] = Append(@, TimeoutError)]
    /\ ppc' = [ppc EXCEPT ![t] = "raised"]
    /\ presult' = [presult EXCEPT ![t] = Raised("TimeoutError", "")]
    /\ UNCHANGED <<cvars, rvars, lvars, request_count, calls, svars, attempt, purl, pheaders, held, sent, sleeps>>

\* a loop whose variable does not move on after a sleep
NextAttemptSame(a) == a

\* for attempt in range(...): the one loop variable, whichever branch slept
NextAttempt(a) == a + 1

\* asyncio.sleep returns: the async with (if any) is left, the for loop
\* takes its next value or, when range(max_retries + 1) is used up, ends and
\* the coroutine returns None
Wake(t) ==
    /\ ppc[t] \in {"sleep5xx", "sleepNet"}
    /\ held' = [held EXCEPT ![t] = FALSE]
    /\ IF NextAttempt(attempt[t]) <= max_retries
       THEN /\ attempt' = [attempt EXCEPT ![t] = NextAttempt(@)]
            /\ ppc' = [ppc EXCEPT ![t] = "pending"]
            /\ presult' = presult
       ELSE /\ ppc' = [ppc EXCEPT ![t] = "returned"]
            /\ presult' = [presult EXCEPT ![t] = ReturnedNone]
            /\ attempt' = attempt
    /\ UNCHANGED <<cvars, rvars, lvars, request_count, calls, svars, purl, pheaders, sent, outcomes, sleeps>>

\* the call is over: it has returned or raised
Finished(t) == ppc[t] \in {"returned", "raised"}

PipelineStep(t) ==
    /\ \/ Dispatch(t)
       \/ \E s \in Statuses : Respond(t, s)
       \/ NetworkFail(t)
       \/ Timeout(t)
       \/ Wake(t)
    /\ UNCHANGED <<now, tvars, ovars>>

\* ---------------------------------------------------------------- get_token
\* a cache test that ignores the safety buffer
FreshNoBuffer(n, entry) == entry # NoEntry /\ n < entry.expiry

\* if scope in self._token_cache: ... datetime.now() < expiry - buffer
Fresh(n, entry) == entry # NoEntry /\ n < entry.expiry - TokenExpiryBuffer

\* an expiry taken from the safety buffer instead of the lifetime
ExpiryShort(n) == n + TokenExpiryBuffer

\* expiry = datetime.now() + timedelta(hours=1)
Expiry(n) == n + TokenLifetime

\* if token: (None and the empty string are false)
Truthy(tok) == tok # MissingField /\ tok # ""

\* entry of get_token(session, scope): the cache test, then either the
\* cached token is returned or the authentication request is sent
GetTokenEnter(t, scope) ==
    /\ tscope' = [tscope EXCEPT ![t] = scope]
    /\ tanswer' = [tanswer EXCEPT ![t] = <<>>]
    /\ IF Fresh(now, token_cache[scope])
       THEN /\ tpc' = [tpc EXCEPT ![t] = "done"]
            /\ tresult' = [tresult EXCEPT ![t] = TokenValue(token_cache[scope].token)]
            /\ tsent' = [tsent EXCEPT ![t] = 0]
            /\ UNCHANGED svars
       ELSE /\ tpc' = [tpc EXCEPT ![t] = "authInflight"]
            /\ tresult' = [tresult EXCEPT ![t] = NoResult]
            /\ tsent' = [tsent EXCEPT ![t] = 1]
            /\ wire' = Append(wire, [task |-> t, url |-> AuthUrl(scope), auth |-> NoToken])
            /\ auth_count' = auth_count + 1
            /\ dispatch_count' = dispatch_count
    /\ UNCHANGED <<now, token_cache>>

\* the caller has taken the result of get_token
GetTokenLeave(t) ==
    /\ tpc' = [tpc EXCEPT ![t] = "idle"]
    /\ tsent' = [tsent EXCEPT ![t] = 0]
    /\ tanswer' = [tanswer EXCEPT ![t] = <<>>]
    /\ tresult' = [tresult EXCEPT ![t] = NoResult]
    /\ UNCHANGED <<now, token_cache, tscope>>

\* a handler that lets the exception out of get_token
AuthExceptionEscapes(t) ==
    /\ tpc' = [tpc EXCEPT ![t] = "done"]
    /\ tresult' = [tresult EXCEPT ![t] = Raised("Exception", "")]

\* except Exception as e: ... return None
AuthExceptionHandler(t) ==
    /\ tpc' = [tpc EXCEPT ![t] = "done"]
    /\ tresult' = [tresult EXCEPT ![t] = ReturnedNone]

\* a failure path that drops the entry of the scope
CacheAfterFailureEvicts(cache, scope) == [cache EXCEPT ![scope] = NoEntry]

\* the paths that return None (else branch, except handler) do not touch
\* self._token_cache
CacheAfterFailure(cache, scope) == cache

\* the authentication response arrives (status, and for a 200 the token
\* field of its JSON body): the body of the async with block
AuthRespond(t, ans) ==
    /\ tpc[t] = "authInflight"
    /\ tanswer' = [tanswer EXCEPT ![t] = ans]
    /\ tpc' = [tpc EXCEPT ![t] = "done"]
    /\ IF ans[1] = 200 /\ Truthy(ans[2])
       THEN /\ token_cache' = [token_cache EXCEPT ![tscope[t]] = Entry(ans[2], Expiry(now))]
            /\ tresult' = [tresult EXCEPT ![t] = TokenValue(ans[2])]
       ELSE /\ token_cache' = CacheAfterFailure(token_cache, tscope[t])
            /\ tresult' = [tresult EXCEPT ![t] = ReturnedNone]
    /\ UNCHANGED <<now, tscope, tsent, svars>>

\* session.post or response.json() raises (connection failure, timeout,
\* a body that is not JSON)
AuthFail(t) ==
    /\ tpc[t] = "authInflight"
    /\ tanswer' = [tanswer EXCEPT ![t] = <<0, "Exception">>]
    /\ AuthExceptionHandler(t)
    /\ token_cache' = CacheAfterFailure(token_cache, tscope[t])
    /\ UNCHANGED <<now, tscope, tsent, svars>>

GetTokenStep(t) ==
    /\ \/ \E ans \in AuthAnswers : AuthRespond(t, ans)
       \/ AuthFail(t)
    /\ UNCHANGED <<cvars, rvars, lvars, request_count, calls, pvars, ovars>>

\* time passes, by d minutes
TickBy(d) ==
    /\ now + d <= MaxTime
    /\ now' = now + d
    /\ UNCHANGED <<cvars, rvars, lvars, request_count, calls, svars, pvars, tvars, ovars>>

\* how long a stored token is handed out: expiry - buffer - time of the write
FreshSpan == TokenLifetime - TokenExpiryBuffer

Tick ==
    /\ \E d \in TickSteps : TickBy(d)
    /\ UNCHANGED <<cvars, rvars, lvars, request_count, calls, svars, pvars, tvars, ovars>>

\* ---------------------------------------------------------------- SpecToken:
\* tasks call AuthenticationManager.get_token, MaxTokenCalls times in all
GetToken(t, scope) ==
    /\ tpc[t] = "idle"
    /\ calls < MaxTokenCalls
    /\ calls' = calls + 1
    /\ GetTokenEnter(t, scope)
    /\ UNCHANGED <<cvars, rvars, lvars, request_count, pvars, ovars>>

TokenCollect(t) ==
    /\ tpc[t] = "done"
    /\ GetTokenLeave(t)
    /\ wire' = <<>>
    /\ UNCHANGED <<cvars, rvars, lvars, request_count, calls, auth_count, dispatch_count, pvars, ovars>>

\* ---------------------------------------------------------------- Spec:
\* one task calls _make_request_with_retry directly, MaxCalls times
Request(t) ==
    /\ ppc[t] = "idle"
    /\ calls < MaxCalls
    /\ calls' = calls + 1
    /\ PipelineEnter(t, ValidateUrl("ACC1000"), NoToken)
    /\ UNCHANGED <<cvars, rvars, lvars, request_count, svars, now, tvars, ovars>>

Collect(t) ==
    /\ ppc[t] \in {"returned", "raised"}
    /\ PipelineLeave(t)
    /\ wire' = <<>>
    /\ UNCHANGED <<cvars, rvars, lvars, request_count, calls, auth_count, dispatch_count, now, tvars, ovars>>

vars == <<max_retries, retry_delay, request_count, calls, wire, auth_count, dispatch_count, pvars, now, tvars, ovars, rvars, lvars>>

PipelineInit ==
    /\ ppc = [t \in Tasks |-> "idle"]
    /\ attempt = [t \in Tasks |-> 0]
    /\ purl = [t \in Tasks |-> <<>>]
    /\ pheaders = [t \in Tasks |-> NoToken]
    /\ held = [t \in Tasks |-> FALSE]
    /\ sent = [t \in Tasks |-> 0]
    /\ outcomes = [t \in Tasks |-> <<>>]
    /\ sleeps = [t \in Tasks |-> <<>>]
    /\ presult = [t \in Tasks |-> NoResult]

TokenInit ==
    /\ now = 0
    /\ token_cache = [sc \in Scopes |-> NoEntry]
    /\ tpc = [t \in Tasks |-> "idle"]
    /\ tscope = [t \in Tasks |-> "transfer"]
    /\ tsent = [t \in Tasks |-> 0]
    /\ tanswer = [t \in Tasks |-> <<>>]
    /\ tresult = [t \in Tasks |-> NoResult]

OpsInit ==
    /\ vpc = [t \in Tasks |-> "idle"]
    /\ vacct = [t \in Tasks |-> <<>>]
    /\ vresult = [t \in Tasks |-> NoResult]
    /\ opc = [t \in Tasks |-> "idle"]
    /\ oreq = [t \in Tasks |-> NoResult]
    /\ oauth = [t \in Tasks |-> FALSE]
    /\ ofrom = [t \in Tasks |-> NoResult]
    /\ oto = [t \in Tasks |-> NoResult]
    /\ oresult = [t \in Tasks |-> NoResult]
    /\ bpc = [t \in Tasks |-> "idle"]
    /\ bacct = [t \in Tasks |-> <<>>]
    /\ bresult = [t \in Tasks |-> NoResult]
    /\ hpc = [t \in Tasks |-> "idle"]
    /\ hacct = [t \in Tasks |-> <<>>]
    /\ hresult = [t \in Tasks |-> NoResult]

Init ==
    /\ max_retries \in MaxRetriesValues
    /\ retry_delay \in RetryDelays
    /\ request_count = 0
    /\ calls = 0
    /\ wire = <<>>
    /\ auth_count = 0
    /\ dispatch_count = 0
    /\ PipelineInit
    /\ TokenInit
    /\ OpsInit
    /\ cargs = <<>>
    /\ creq = NoResult
    /\ session = 0
    /\ sessions = <<>>
    /\ cm = "out"
    /\ cmexc = NoResult

Next ==
    \E t \in Sequential :
        \/ Request(t)
        \/ PipelineStep(t)
        \/ Collect(t)

Spec == Init /\ [][Next]_vars

\* the configuration plays no part in get_token
TokenSpecInit ==
    /\ Init
    /\ max_retries = 0
    /\ retry_delay = 1

TokenNext ==
    \/ \E t \in Sequential :
          \/ \E scope \in Scopes : GetToken(t, scope)
          \/ GetTokenStep(t)
          \/ TokenCollect(t)
    \/ Tick

SpecToken == TokenSpecInit /\ [][TokenNext]_vars

\* several tasks call get_token on the one AuthenticationManager, MaxCalls
\* times in all; asyncio runs another task whenever one awaits the
\* authentication response
ConcGetToken(t, scope) == calls < MaxCalls /\ GetToken(t, scope)

\* in the concurrent specification time passes by the span after which a
\* stored token is no longer handed out
ConcTick == TickBy(FreshSpan)

TokenConcNext ==
    \/ \E t \in Concurrent :
          \/ \E scope \in Scopes : ConcGetToken(t, scope)
          \/ GetTokenStep(t)
          \/ TokenCollect(t)
    \/ ConcTick

SpecTokenConc == TokenSpecInit /\ [][TokenConcNext]_vars

LiveSpec == Init /\ [][Next]_vars /\ \A t \in Sequential : WF_vars(PipelineStep(t))

\* ---------------------------------------------------------------- strings
RECURSIVE LStrip(_)
LStrip(s) == IF s # <<>> /\ Head(s) = " " THEN LStrip(Tail(s)) ELSE s
RECURSIVE RStrip(_)
RStrip(s) == IF s # <<>> /\ s[Len(s)] = " " THEN RStrip(SubSeq(s, 1, Len(s) - 1)) ELSE s
\* str.strip()
Strip(s) == RStrip(LStrip(s))
\* str.upper()
Upper(s) == [i \in 1..Len(s) |-> IF s[i] = "a" THEN "A" ELSE s[i]]

\* Amounts are integers, in thousandths of the currency unit: 0.004 is 4.
\* if self.amount > 1_000_000
MaxAmount == 1000000000
\* the amounts a caller passes: negative, zero, below, at and above half a
\* cent, ties between two cents, the amounts of the tests, and the limit
\* with its neighbours
Amounts ==
    {-50000, 0, 1, 4, 5, 6, 15, 125, 375, 1005, 100000, 100123,
     999999995, 1000000000, 1000000001, 2000000000}
\* the amount of the requests handed to transfer_funds
SomeAmount == 100000

\* round() follows the float, and a float written with a 5 in the third
\* place lies just above or just below the tie between two cents, or, for
\* the few that are exact, on it (then the even cent wins).  Of the ties in
\* Amounts these go up: round(0.005, 2) is 0.01 and round(0.375, 2) is 0.38,
\* while 0.015, 0.125, 1.005 and 999999.995 go down.
TiesRoundedUp == {5, 375}

\* round(self.amount, 2) of a positive amount: the nearest multiple of a cent
Round2(a) ==
    LET q == a \div 10
        r == a % 10
    IN  IF r < 5 THEN q * 10
        ELSE IF r > 5 THEN (q + 1) * 10
        ELSE IF a \in TiesRoundedUp THEN (q + 1) * 10 ELSE q * 10

\* not self.from_account
EmptyId(f) == f = <<>>

\* a limit that excludes the boundary
ExceedsLimitInclusive(a) == a >= MaxAmount

\* self.amount > 1_000_000
ExceedsLimit(a) == a > MaxAmount

\* TransferRequest.__post_init__
TransferRequestInit(f, g, a) ==
    IF EmptyId(f) \/ EmptyId(g)
    THEN Raised("ValueError", "Account IDs cannot be empty")
    ELSE IF a <= 0 THEN Raised("ValueError", "Amount must be positive")
    ELSE IF ExceedsLimit(a) THEN Raised("ValueError", "Amount exceeds maximum limit")
    ELSE [kind |-> "request", from_account |-> Upper(Strip(f)), to_account |-> Upper(Strip(g)),
          amount |-> Round2(a)]

\* the requests a caller can hand to transfer_funds
Requests ==
    {r \in {TransferRequestInit(f, g, SomeAmount) : f \in RawAccounts, g \in RawAccounts} :
        r.kind = "request"}

\* ---------------------------------------------------------------- SpecRequest:
\* a caller constructs TransferRequest objects, from any arguments or from
\* the fields of the request constructed last
Construct(f, g, a) ==
    /\ cargs' = <<f, g, a>>
    /\ creq' = TransferRequestInit(f, g, a)
    /\ UNCHANGED <<cvars, lvars, request_count, calls, svars, pvars, now, tvars, ovars>>

Rebuild ==
    /\ creq.kind = "request"
    /\ Construct(creq.from_account, creq.to_account, creq.amount)

RequestNext ==
    \/ \E f \in RawAccounts, g \in RawAccounts, a \in Amounts : Construct(f, g, a)
    \/ Rebuild

SpecRequest == TokenSpecInit /\ [][RequestNext]_vars

\* ---------------------------------------------------------------- validate_account
Info(acct, isValid, status) ==
    [kind |-> "info", accountId |-> acct, isValid |-> isValid, status |-> status]

\* a reading of the flag that takes a missing isValid for valid
IsValidDefaultTrue(info) == info.isValid # "false"

\* account_info.get('isValid', False)
IsValid(info) == info.isValid = "true"

\* an emptiness test that forgets the strip()
BlankOnlyEmpty(acct) == acct = <<>>

\* if not account_id or not account_id.strip()
Blank(acct) == acct = <<>> \/ Strip(acct) = <<>>

\* entry of validate_account(account_id, use_auth)
ValidateEnter(t, acct, use_auth) ==
    IF Blank(acct)
    THEN /\ vpc' = [vpc EXCEPT ![t] = "done"]
         /\ vacct' = [vacct EXCEPT ![t] = acct]
         /\ vresult' = [vresult EXCEPT ![t] = Raised("ValueError", "Account ID cannot be empty")]
         /\ UNCHANGED <<pvars, now, tvars, svars>>
    ELSE /\ vacct' = [vacct EXCEPT ![t] = Upper(Strip(acct))]
         /\ vresult' = [vresult EXCEPT ![t] = NoResult]
         /\ IF use_auth
            THEN /\ vpc' = [vpc EXCEPT ![t] = "token"]
                 /\ GetTokenEnter(t, "enquiry")
                 /\ UNCHANGED pvars
            ELSE /\ vpc' = [vpc EXCEPT ![t] = "request"]
                 /\ PipelineEnter(t, ValidateUrl(Upper(Strip(acct))), NoToken)
                 /\ UNCHANGED <<now, tvars, svars>>

ValidateLeave(t) ==
    /\ vpc' = [vpc EXCEPT ![t] = "idle"]
    /\ vacct' = [vacct EXCEPT ![t] = <<>>]
    /\ vresult' = [vresult EXCEPT ![t] = NoResult]

\* headers that never get the token
BearerHeaderDropsToken(res) == NoToken

\* headers['Authorization'] = f'Bearer {token}' if token
BearerHeader(res) == IF res.kind = "token" THEN res.token ELSE NoToken

\* get_token has returned: the request is handed to the pipeline
ValidateGotToken(t) ==
    /\ vpc[t] = "token"
    /\ tpc[t] = "done"
    /\ PipelineEnter(t, ValidateUrl(vacct[t]), BearerHeader(tresult[t]))
    /\ GetTokenLeave(t)
    /\ vpc' = [vpc EXCEPT ![t] = "request"]
    /\ UNCHANGED <<qvars, cvars, rvars, lvars, request_count, calls, svars, vacct, vresult,
                   opc, oreq, oauth, ofrom, oto, oresult>>

\* a validate_account without the elif response.status == 404 branch
ValidateOutcomeNo404(res, acct, body) ==
    IF res.kind = "error" /\ res.type = "BankingClientError" THEN res
    ELSE IF res.kind # "response" THEN Raised("BankingClientError", "Validation error")
    ELSE IF body = "unreadable" THEN Raised("BankingClientError", "Validation error")
    ELSE IF res.status = 200
         THEN Info(acct, CASE body = "valid" -> "true"
                           [] body = "invalid" -> "false"
                           [] OTHER -> "missing", "FROM_SERVICE")
    ELSE Raised("BankingClientError", "Validation failed")

\* what validate_account makes of the pipeline's result; body is what
\* reading the response gives
ValidateOutcome(res, acct, body) ==
    IF res.kind = "error" /\ res.type = "BankingClientError" THEN res
    ELSE IF res.kind # "response" THEN Raised("BankingClientError", "Validation error")
    ELSE IF res.status = 200
         THEN IF body = "unreadable" THEN Raised("BankingClientError", "Validation error")
              ELSE Info(acct, CASE body = "valid" -> "true"
                                [] body = "invalid" -> "false"
                                [] OTHER -> "missing", "FROM_SERVICE")
    ELSE IF res.status = 404 THEN Info(acct, "false", "NOT_FOUND")
    ELSE IF body = "unreadable" THEN Raised("BankingClientError", "Validation error")
    ELSE Raised("BankingClientError", "Validation failed")

\* the pipeline call is over: the try block after it and its handler
ValidateHandle(t, body) ==
    /\ vpc[t] = "request"
    /\ Finished(t)
    /\ vresult' = [vresult EXCEPT ![t] = ValidateOutcome(presult[t], vacct[t], body)]
    /\ vpc' = [vpc EXCEPT ![t] = "done"]
    /\ PipelineLeave(t)
    /\ UNCHANGED <<qvars, cvars, rvars, lvars, request_count, calls, svars, now, tvars, vacct,
                   opc, oreq, oauth, ofrom, oto, oresult>>

\* ---------------------------------------------------------------- transfer_funds
\* validations that inherit the use_auth of the transfer
NestedUseAuthInherited(use_auth) == use_auth

\* self.validate_account(request.from_account): use_auth is left at its
\* default, False, whatever the use_auth of the transfer
NestedUseAuth(use_auth) == FALSE

\* entry of transfer_funds(request, use_auth): the source is validated
TransferEnter(t, req, use_auth) ==
    /\ opc' = [opc EXCEPT ![t] = "valFrom"]
    /\ oreq' = [oreq EXCEPT ![t] = req]
    /\ oauth' = [oauth EXCEPT ![t] = use_auth]
    /\ ofrom' = [ofrom EXCEPT ![t] = NoResult]
    /\ oto' = [oto EXCEPT ![t] = NoResult]
    /\ oresult' = [oresult EXCEPT ![t] = NoResult]
    /\ ValidateEnter(t, req.from_account, NestedUseAuth(use_auth))

TransferLeave(t) ==
    /\ opc' = [opc EXCEPT ![t] = "idle"]
    /\ oreq' = [oreq EXCEPT ![t] = NoResult]
    /\ oauth' = [oauth EXCEPT ![t] = FALSE]
    /\ ofrom' = [ofrom EXCEPT ![t] = NoResult]
    /\ oto' = [oto EXCEPT ![t] = NoResult]
    /\ oresult' = [oresult EXCEPT ![t] = NoResult]

\* the source validation is over: its error leaves transfer_funds, its
\* result is kept and the destination is validated
TransferAfterFrom(t) ==
    /\ opc[t] = "valFrom"
    /\ vpc[t] = "done"
    /\ ofrom' = [ofrom EXCEPT ![t] = vresult[t]]
    /\ IF vresult[t].kind = "error"
       THEN /\ opc' = [opc EXCEPT ![t] = "done"]
            /\ oresult' = [oresult EXCEPT ![t] = vresult[t]]
            /\ ValidateLeave(t)
            /\ UNCHANGED <<pvars, now, tvars, svars>>
       ELSE /\ opc' = [opc EXCEPT ![t] = "valTo"]
            /\ oresult' = oresult
            /\ ValidateEnter(t, oreq[t].to_account, NestedUseAuth(oauth[t]))
    /\ UNCHANGED <<qvars, cvars, rvars, lvars, request_count, calls, oreq, oauth, oto>>

\* the destination validation is over: the two isValid tests, then the token
\* or the POST
TransferAfterTo(t) ==
    /\ opc[t] = "valTo"
    /\ vpc[t] = "done"
    /\ oto' = [oto EXCEPT ![t] = vresult[t]]
    /\ ValidateLeave(t)
    /\ IF vresult[t].kind = "error"
       THEN /\ opc' = [opc EXCEPT ![t] = "done"]
            /\ oresult' = [oresult EXCEPT ![t] = vresult[t]]
            /\ UNCHANGED <<pvars, now, tvars, svars>>
       ELSE IF ~IsValid(ofrom[t])
       THEN /\ opc' = [opc EXCEPT ![t] = "done"]
            /\ oresult' = [oresult EXCEPT ![t] =
                               Raised("BankingClientError", "Invalid source account")]
            /\ UNCHANGED <<pvars, now, tvars, svars>>
       ELSE IF ~IsValid(vresult[t])
       THEN /\ opc' = [opc EXCEPT ![t] = "done"]
            /\ oresult' = [oresult EXCEPT ![t] =
                               Raised("BankingClientError", "Invalid destination account")]
            /\ UNCHANGED <<pvars, now, tvars, svars>>
       ELSE IF oauth[t]
       THEN /\ opc' = [opc EXCEPT ![t] = "token"]
            /\ oresult' = oresult
            /\ GetTokenEnter(t, "transfer")
            /\ UNCHANGED pvars
       ELSE /\ opc' = [opc EXCEPT ![t] = "post"]
            /\ oresult' = oresult
            /\ PipelineEnter(t, TransferUrl, NoToken)
            /\ UNCHANGED <<now, tvars, svars>>
    /\ UNCHANGED <<qvars, cvars, rvars, lvars, request_count, calls, oreq, oauth, ofrom>>

\* get_token has returned: the POST is handed to the pipeline
TransferGotToken(t) ==
    /\ opc[t] = "token"
    /\ tpc[t] = "done"
    /\ PipelineEnter(t, TransferUrl, BearerHeader(tresult[t]))
    /\ GetTokenLeave(t)
    /\ opc' = [opc EXCEPT ![t] = "post"]
    /\ UNCHANGED <<qvars, cvars, rvars, lvars, request_count, calls, svars, vpc, vacct, vresult,
                   oreq, oauth, ofrom, oto, oresult>>

\* what transfer_funds makes of the pipeline's result
TransferOutcome(res, body) ==
    IF res.kind = "error" /\ res.type = "BankingClientError" THEN res
    ELSE IF res.kind # "response" THEN Raised("BankingClientError", "Transfer error")
    ELSE IF body = "unreadable" THEN Raised("BankingClientError", "Transfer error")
    ELSE IF res.status = 200 THEN [kind |-> "TransferResponse"]
    ELSE Raised("BankingClientError", "Transfer failed")

\* the pipeline call is over: the try block after it and its handler
TransferHandle(t, body) ==
    /\ opc[t] = "post"
    /\ Finished(t)
    /\ oresult' = [oresult EXCEPT ![t] = TransferOutcome(presult[t], body)]
    /\ opc' = [opc EXCEPT ![t] = "done"]
    /\ PipelineLeave(t)
    /\ UNCHANGED <<qvars, cvars, rvars, lvars, request_count, calls, svars, now, tvars, vpc, vacct, vresult,
                   oreq, oauth, ofrom, oto>>

\* ---------------------------------------------------------------- get_account_balance
\* entry of get_account_balance(account_id, use_auth)
BalanceEnter(t, acct, use_auth) ==
    IF Blank(acct)
    THEN /\ bpc' = [bpc EXCEPT ![t] = "done"]
         /\ bacct' = [bacct EXCEPT ![t] = acct]
         /\ bresult' = [bresult EXCEPT ![t] = Raised("ValueError", "Account ID cannot be empty")]
         /\ UNCHANGED <<pvars, now, tvars, svars>>
    ELSE /\ bacct' = [bacct EXCEPT ![t] = Upper(Strip(acct))]
         /\ bresult' = [bresult EXCEPT ![t] = NoResult]
         /\ IF use_auth
            THEN /\ bpc' = [bpc EXCEPT ![t] = "token"]
                 /\ GetTokenEnter(t, "enquiry")
                 /\ UNCHANGED pvars
            ELSE /\ bpc' = [bpc EXCEPT ![t] = "request"]
                 /\ PipelineEnter(t, BalanceUrl(Upper(Strip(acct))), NoToken)
                 /\ UNCHANGED <<now, tvars, svars>>

BalanceLeave(t) ==
    /\ bpc' = [bpc EXCEPT ![t] = "idle"]
    /\ bacct' = [bacct EXCEPT ![t] = <<>>]
    /\ bresult' = [bresult EXCEPT ![t] = NoResult]

\* get_token has returned: the request is handed to the pipeline
BalanceGotToken(t) ==
    /\ bpc[t] = "token"
    /\ tpc[t] = "done"
    /\ PipelineEnter(t, BalanceUrl(bacct[t]), BearerHeader(tresult[t]))
    /\ GetTokenLeave(t)
    /\ bpc' = [bpc EXCEPT ![t] = "request"]
    /\ UNCHANGED <<cvars, rvars, lvars, request_count, calls, svars, bacct, bresult, hpc, hacct, hresult,
                   vpc, vacct, vresult, opc, oreq, oauth, ofrom, oto, oresult>>

\* what get_account_balance makes of the pipeline's result: every status
\* but 200 is a failure
BalanceOutcome(res, body) ==
    IF res.kind = "error" /\ res.type = "BankingClientError" THEN res
    ELSE IF res.kind # "response" THEN Raised("BankingClientError", "Balance error")
    ELSE IF body = "unreadable" THEN Raised("BankingClientError", "Balance error")
    ELSE IF res.status = 200 THEN [kind |-> "balance"]
    ELSE Raised("BankingClientError", "Balance retrieval failed")

\* the pipeline call is over: the try block after it and its handler
BalanceHandle(t, body) ==
    /\ bpc[t] = "request"
    /\ Finished(t)
    /\ bresult' = [bresult EXCEPT ![t] = BalanceOutcome(presult[t], body)]
    /\ bpc' = [bpc EXCEPT ![t] = "done"]
    /\ PipelineLeave(t)
    /\ UNCHANGED <<cvars, rvars, lvars, request_count, calls, svars, now, tvars, bacct, hpc, hacct, hresult,
                   vpc, vacct, vresult, opc, oreq, oauth, ofrom, oto, oresult>>

\* ---------------------------------------------------------------- get_transaction_history
\* entry of get_transaction_history(account_id): the token comes first; the
\* account_id is neither tested nor normalised
HistoryEnter(t, acct) ==
    /\ hpc' = [hpc EXCEPT ![t] = "token"]
    /\ hacct' = [hacct EXCEPT ![t] = acct]
    /\ hresult' = [hresult EXCEPT ![t] = NoResult]
    /\ GetTokenEnter(t, "enquiry")
    /\ UNCHANGED pvars

HistoryLeave(t) ==
    /\ hpc' = [hpc EXCEPT ![t] = "idle"]
    /\ hacct' = [hacct EXCEPT ![t] = <<>>]
    /\ hresult' = [hresult EXCEPT ![t] = NoResult]

\* a token test that lets the call go on without a token
TokenMissingNever(res) == FALSE

\* if not token
TokenMissing(res) == res.kind # "token"

\* get_token has returned: without a token the call raises, with one the
\* request is handed to the pipeline
HistoryGotToken(t) ==
    /\ hpc[t] = "token"
    /\ tpc[t] = "done"
    /\ GetTokenLeave(t)
    /\ IF TokenMissing(tresult[t])
       THEN /\ hpc' = [hpc EXCEPT ![t] = "done"]
            /\ hresult' = [hresult EXCEPT ![t] =
                   Raised("BankingClientError", "Authentication required for transaction history")]
            /\ UNCHANGED pvars
       ELSE /\ hpc' = [hpc EXCEPT ![t] = "request"]
            /\ hresult' = hresult
            /\ PipelineEnter(t, HistoryUrl(hacct[t]), BearerHeader(tresult[t]))
    /\ UNCHANGED <<cvars, rvars, lvars, request_count, calls, svars, hacct, bpc, bacct, bresult,
                   vpc, vacct, vresult, opc, oreq, oauth, ofrom, oto, oresult>>

\* what get_transaction_history makes of the pipeline's result
HistoryOutcome(res, body) ==
    IF res.kind = "error" /\ res.type = "BankingClientError" THEN res
    ELSE IF res.kind # "response" THEN Raised("BankingClientError", "History error")
    ELSE IF body = "unreadable" THEN Raised("BankingClientError", "History error")
    ELSE IF res.status = 200 THEN [kind |-> "history"]
    ELSE Raised("BankingClientError", "History retrieval failed")

\* the pipeline call is over: the try block after it and its handler
HistoryHandle(t, body) ==
    /\ hpc[t] = "request"
    /\ Finished(t)
    /\ hresult' = [hresult EXCEPT ![t] = HistoryOutcome(presult[t], body)]
    /\ hpc' = [hpc EXCEPT ![t] = "done"]
    /\ PipelineLeave(t)
    /\ UNCHANGED <<cvars, rvars, lvars, request_count, calls, svars, now, tvars, hacct, bpc, bacct, bresult,
                   vpc, vacct, vresult, opc, oreq, oauth, ofrom, oto, oresult>>

\* ---------------------------------------------------------------- SpecOps:
\* one task calls validate_account, get_account_balance, transfer_funds and
\* get_transaction_history, MaxCalls times in all
Quiet(t) ==
    /\ ppc[t] = "idle" /\ tpc[t] = "idle" /\ vpc[t] = "idle" /\ opc[t] = "idle"
    /\ bpc[t] = "idle" /\ hpc[t] = "idle"

Validate(t, acct, use_auth) ==
    /\ Quiet(t)
    /\ calls < MaxCalls
    /\ calls' = calls + 1
    /\ ValidateEnter(t, acct, use_auth)
    /\ UNCHANGED <<qvars, cvars, rvars, lvars, request_count, opc, oreq, oauth, ofrom, oto, oresult>>

ValidateCollect(t) ==
    /\ opc[t] = "idle"
    /\ vpc[t] = "done"
    /\ ValidateLeave(t)
    /\ wire' = <<>>
    /\ UNCHANGED <<qvars, cvars, rvars, lvars, request_count, calls, auth_count, dispatch_count, pvars, now, tvars,
                   opc, oreq, oauth, ofrom, oto, oresult>>

Transfer(t, req, use_auth) ==
    /\ Quiet(t)
    /\ calls < MaxCalls
    /\ calls' = calls + 1
    /\ TransferEnter(t, req, use_auth)
    /\ UNCHANGED <<qvars, cvars, rvars, lvars, request_count>>

TransferCollect(t) ==
    /\ opc[t] = "done"
    /\ TransferLeave(t)
    /\ wire' = <<>>
    /\ UNCHANGED <<qvars, cvars, rvars, lvars, request_count, calls, auth_count, dispatch_count, pvars, now, tvars, vpc, vacct, vresult>>

Balance(t, acct, use_auth) ==
    /\ Quiet(t)
    /\ calls < MaxCalls
    /\ calls' = calls + 1
    /\ BalanceEnter(t, acct, use_auth)
    /\ UNCHANGED <<cvars, rvars, lvars, request_count, hpc, hacct, hresult,
                   vpc, vacct, vresult, opc, oreq, oauth, ofrom, oto, oresult>>

BalanceCollect(t) ==
    /\ bpc[t] = "done"
    /\ BalanceLeave(t)
    /\ wire' = <<>>
    /\ UNCHANGED <<cvars, rvars, lvars, request_count, calls, auth_count, dispatch_count, pvars, now, tvars, hpc, hacct, hresult,
                   vpc, vacct, vresult, opc, oreq, oauth, ofrom, oto, oresult>>

History(t, acct) ==
    /\ Quiet(t)
    /\ calls < MaxCalls
    /\ calls' = calls + 1
    /\ HistoryEnter(t, acct)
    /\ UNCHANGED <<cvars, rvars, lvars, request_count, bpc, bacct, bresult,
                   vpc, vacct, vresult, opc, oreq, oauth, ofrom, oto, oresult>>

HistoryCollect(t) ==
    /\ hpc[t] = "done"
    /\ HistoryLeave(t)
    /\ wire' = <<>>
    /\ UNCHANGED <<cvars, rvars, lvars, request_count, calls, auth_count, dispatch_count, pvars, now, tvars, bpc, bacct, bresult,
                   vpc, vacct, vresult, opc, oreq, oauth, ofrom, oto, oresult>>

OpsSpecInit ==
    /\ Init
    /\ max_retries <= 1
    /\ retry_delay = 1

OpsNext ==
    \E t \in Sequential :
        \/ \E acct \in RawAccounts, use_auth \in BOOLEAN : Validate(t, acct, use_auth)
        \/ ValidateGotToken(t)
        \/ \E body \in ValidateBodies : ValidateHandle(t, body)
        \/ ValidateCollect(t)
        \/ \E req \in Requests, use_auth \in BOOLEAN : Transfer(t, req, use_auth)
        \/ TransferAfterFrom(t)
        \/ TransferAfterTo(t)
        \/ TransferGotToken(t)
        \/ \E body \in ReadableBodies : TransferHandle(t, body)
        \/ TransferCollect(t)
        \/ \E acct \in RawAccounts, use_auth \in BOOLEAN : Balance(t, acct, use_auth)
        \/ BalanceGotToken(t)
        \/ \E body \in ReadableBodies : BalanceHandle(t, body)
        \/ BalanceCollect(t)
        \/ \E acct \in RawAccounts : History(t, acct)
        \/ HistoryGotToken(t)
        \/ \E body \in ReadableBodies : HistoryHandle(t, body)
        \/ HistoryCollect(t)
        \/ PipelineStep(t)
        \/ GetTokenStep(t)

SpecOps == OpsSpecInit /\ [][OpsNext]_vars

\* ---------------------------------------------------------------- SpecOpsConc:
\* two tasks call _make_request_with_retry, MaxCalls times in all, and
\* get_token on the one client; asyncio runs the other task at every await
ConcRequest(t) == Quiet(t) /\ Request(t)

ConcEnquiryToken(t) == Quiet(t) /\ GetToken(t, "enquiry")

OpsConcInit ==
    /\ Init
    /\ max_retries = 1
    /\ retry_delay = 1

OpsConcNext ==
    \E t \in Concurrent :
        \/ ConcRequest(t)
        \/ PipelineStep(t)
        \/ Collect(t)
        \/ ConcEnquiryToken(t)
        \/ GetTokenStep(t)
        \/ TokenCollect(t)

SpecOpsConc == OpsConcInit /\ [][OpsConcNext]_vars

\* ---------------------------------------------------------------- the session
\* initialize(): self.session = aiohttp.ClientSession(...)
Initialize ==
    /\ Len(sessions) < MaxSessions
    /\ sessions' = Append(sessions, "open")
    /\ session' = Len(sessions) + 1

\* a close() that leaves the session as it is
SessionClosedNot(ss, s) == ss

\* await self.session.close()
SessionClosed(ss, s) == [ss EXCEPT ![s] = "closed"]

\* close(): if self.session: await self.session.close()
Close ==
    /\ sessions' = IF session # 0 THEN SessionClosed(sessions, session) ELSE sessions
    /\ session' = session

\* ---------------------------------------------------------------- SpecClient:
\* a caller uses the client as an async context manager and calls
\* validate_account inside the block
\* __aenter__: await self.initialize()
AEnter ==
    /\ cm \in {"out", "left"}
    /\ Initialize
    /\ cm' = "in"
    /\ cmexc' = NoResult
    /\ UNCHANGED <<cvars, rvars, request_count, calls, svars, pvars, now, tvars, ovars>>

ClientValidate(t, acct) == cm = "in" /\ Validate(t, acct, FALSE)

\* the block goes on after the call: with its result, or with its error
\* caught inside the block
ClientCollect(t) == cm = "in" /\ ValidateCollect(t)

\* the error of the call leaves the block: __aexit__(exc_type, exc_val,
\* exc_tb) runs close() and the error goes on to the caller
ExitOnError(t) ==
    /\ cm = "in"
    /\ opc[t] = "idle"
    /\ vpc[t] = "done"
    /\ vresult[t].kind = "error"
    /\ cmexc' = vresult[t]
    /\ cm' = "left"
    /\ Close
    /\ ValidateLeave(t)
    /\ wire' = <<>>
    /\ UNCHANGED <<qvars, cvars, rvars, request_count, calls, auth_count, dispatch_count, pvars, now, tvars,
                   opc, oreq, oauth, ofrom, oto, oresult>>

\* the block ends: __aexit__(None, None, None) runs close()
AExit(t) ==
    /\ cm = "in"
    /\ Quiet(t)
    /\ cmexc' = NoResult
    /\ cm' = "left"
    /\ Close
    /\ UNCHANGED <<cvars, rvars, request_count, calls, svars, pvars, now, tvars, ovars>>

ClientNext ==
    \/ AEnter
    \/ \E t \in Sequential :
          \/ \E acct \in RawAccounts : ClientValidate(t, acct)
          \/ \E body \in ValidateBodies : ValidateHandle(t, body)
          \/ PipelineStep(t)
          \/ ClientCollect(t)
          \/ ExitOnError(t)
          \/ AExit(t)

SpecClient == OpsSpecInit /\ [][ClientNext]_vars

\* ---------------------------------------------------------------- SpecSession:
\* a caller calls initialize() and close() on the client itself, in any
\* order, and validate_account while the current session is open
InitializeCall(t) ==
    /\ Quiet(t)
    /\ Initialize
    /\ UNCHANGED <<cm, cmexc, cvars, rvars, request_count, calls, svars, pvars, now, tvars, ovars>>

CloseCall(t) ==
    /\ Quiet(t)
    /\ Close
    /\ UNCHANGED <<cm, cmexc, cvars, rvars, request_count, calls, svars, pvars, now, tvars, ovars>>

SessionValidate(t, acct) ==
    /\ session # 0
    /\ sessions[session] = "open"
    /\ Validate(t, acct, FALSE)

SessionNext ==
    \E t \in Sequential :
        \/ InitializeCall(t)
        \/ CloseCall(t)
        \/ \E acct \in RawAccounts : SessionValidate(t, acct)
        \/ \E body \in ValidateBodies : ValidateHandle(t, body)
        \/ PipelineStep(t)
        \/ ValidateCollect(t)

SpecSession == OpsSpecInit /\ [][SessionNext]_vars

\* ---------------------------------------------------------------- claims
IsStatus(o) == o[1] = "status"
ServerError(o) == IsStatus(o) /\ o[2] >= 500
ClientStatus(o) == IsStatus(o) /\ o[2] < 500
AllOf(seq, P(_)) == \A i \in 1..Len(seq) : P(seq[i])
\* retry_delay, 2 * retry_delay, 4 * retry_delay, ... (n delays)
RECURSIVE Doubling(_, _)
Doubling(first, n) == IF n = 0 THEN <<>> ELSE <<first>> \o Doubling(2 * first, n - 1)

\* C1: a call whose every dispatch was answered with a status >= 500 makes
\* exactly max_retries + 1 dispatches and then raises: it is still running
\* before the (max_retries + 1)-th answer, and after it it has raised an
\* error and returned no response.
C1_AllServerErrorsFail ==
    \A t \in Tasks :
        (outcomes[t] # <<>> /\ AllOf(outcomes[t], ServerError)) =>
            /\ sent[t] <= max_retries + 1
            /\ Len(outcomes[t]) <= max_retries => ~Finished(t)
            /\ Len(outcomes[t]) = max_retries + 1 =>
                    /\ ppc[t] = "raised"
                    /\ presult[t].kind = "error"
                    /\ sent[t] = max_retries + 1

C1_Witness ==
    /\ max_retries = 2
    /\ outcomes[1] = <<Answered(500), Answered(503), Answered(500)>>
    /\ sent[1] = 3
    /\ ppc[1] = "raised"

C3_ClientStatusReturnsAtOnce ==
    \A t \in Tasks : \A i \in 1..Len(outcomes[t]) :
        ClientStatus(outcomes[t][i]) =>
            /\ i = Len(outcomes[t])
            /\ sent[t] = i
            /\ Len(sleeps[t]) = i - 1
            /\ ppc[t] = "returned"
            /\ presult[t] = Response(outcomes[t][i][2])

C3_Witness ==
    /\ max_retries = 3
    /\ outcomes[1] = <<Answered(404)>>
    /\ sent[1] = 1
    /\ sleeps[1] = <<>>
    /\ ppc[1] = "returned"

\* C4: a call whose every dispatch failed with aiohttp.ClientError sleeps
\* retry_delay, 2 * retry_delay, ... between the attempts, makes
\* max_retries + 1 dispatches and then raises BankingClientError
\* 'Network error'; it never returns a response.
C4_AllNetworkFailures ==
    \A t \in Tasks :
        (outcomes[t] # <<>> /\ AllOf(outcomes[t], LAMBDA o : o = ClientError)) =>
            /\ sent[t] <= max_retries + 1
            /\ presult[t].kind \notin {"response", "None"}
            /\ Len(outcomes[t]) <= max_retries =>
                    /\ ~Finished(t)
                    /\ sleeps[t] = Doubling(retry_delay, Len(outcomes[t]))
            /\ Len(outcomes[t]) = max_retries + 1 =>
                    /\ ppc[t] = "raised"
                    /\ presult[t] = Raised("BankingClientError", "Network error")
                    /\ sent[t] = max_retries + 1
                    /\ sleeps[t] = Doubling(retry_delay, max_retries)

C4_Witness ==
    /\ max_retries = 2
    /\ outcomes[1] = <<ClientError, ClientError, ClientError>>
    /\ sent[1] = 3
    /\ sleeps[1] = <<retry_delay, 2 * retry_delay>>
    /\ ppc[1] = "raised"

\* C5: the i-th sleep of a call, the one after the attempt with index
\* i - 1, lasts retry_delay * 2^(i - 1), after a 5xx answer and after a
\* network failure alike; every failed attempt with index below max_retries
\* is followed by one sleep and the attempt with index max_retries by none.
RetryableFailure(o) == ServerError(o) \/ o = ClientError
C5_BackoffDoubles ==
    \A t \in Tasks :
        /\ \A i \in 1..Len(sleeps[t]) : sleeps[t][i] = retry_delay * (2 ^ (i - 1))
        /\ sleeps[t] = Doubling(retry_delay, Len(sleeps[t]))
        /\ Len(sleeps[t]) <= max_retries
        /\ Len(sleeps[t]) =
              Cardinality({i \in 1..Len(outcomes[t]) :
                              i <= max_retries /\ RetryableFailure(outcomes[t][i])})

C5_Witness ==
    /\ max_retries = 3
    /\ retry_delay = 5
    /\ outcomes[1] = <<Answered(500), ClientError, Answered(503), Answered(500)>>
    /\ sleeps[1] = <<5, 10, 20>>
    /\ ppc[1] = "raised"

\* C6: a call moves Pending -> (Success | Retrying -> Pending | Failed).
\* A call that returns returns a response; it sleeps at most max_retries
\* times; a sleeping call goes on to Pending or Failed; after Success or
\* Failed the call dispatches and sleeps no more; and, when every dispatch
\* and every sleep completes, a pending call reaches Success or Failed.
PendingPhase(t) == ppc[t] \in {"pending", "inflight"}
RetryingPhase(t) == ppc[t] \in {"sleep5xx", "sleepNet"}
SuccessPhase(t) == ppc[t] = "returned" /\ presult[t].kind = "response"
FailedPhase(t) == ppc[t] = "raised" /\ presult[t].kind = "error"
C6_Shape ==
    \A t \in Tasks :
        /\ ppc[t] # "idle" => PendingPhase(t) \/ RetryingPhase(t) \/ SuccessPhase(t) \/ FailedPhase(t)
        /\ Len(sleeps[t]) <= max_retries
C6_Moves ==
    \A t \in Tasks :
        /\ (PendingPhase(t) /\ ppc'[t] # ppc[t]) =>
               ppc'[t] \in {"inflight", "returned", "raised", "sleep5xx", "sleepNet"}
        /\ (RetryingPhase(t) /\ ppc'[t] # ppc[t]) => ppc'[t] \in {"pending", "raised"}
        /\ Finished(t) =>
               \/ ppc'[t] = ppc[t] /\ sent'[t] = sent[t] /\ sleeps'[t] = sleeps[t]
                                    /\ presult'[t] = presult[t]
               \/ ppc'[t] = "idle"
C6_StateMachine ==
    /\ []C6_Shape
    /\ [][C6_Moves]_vars
    /\ \A t \in Sequential : (ppc[t] = "pending") ~> (SuccessPhase(t) \/ FailedPhase(t))

C6_Witness ==
    /\ max_retries = 2
    /\ outcomes[1] = <<ClientError, Answered(503), Answered(200)>>
    /\ Len(sleeps[1]) = 2
    /\ SuccessPhase(1)

\* C7: a get_token call that finds an entry for its scope with
\* now < expiry - 5 minutes (that is, less than 55 minutes after the fetch
\* that wrote it) returns the cached token and sends nothing; any other
\* call sends exactly one authentication request, for its scope, and no
\* call sends a request later on.
StartsGetToken(t) == tpc[t] = "idle" /\ tpc'[t] # "idle"
C7_Step ==
    /\ \A t \in Tasks :
        /\ StartsGetToken(t) =>
              LET e == token_cache[tscope'[t]] IN
              IF e # NoEntry /\ now < e.expiry - TokenExpiryBuffer
              THEN /\ now - (e.expiry - TokenLifetime) < TokenLifetime - TokenExpiryBuffer
                   /\ tpc'[t] = "done"
                   /\ tresult'[t] = TokenValue(e.token)
                   /\ tsent'[t] = 0
                   /\ UNCHANGED svars
              ELSE /\ tpc'[t] = "authInflight"
                   /\ tsent'[t] = 1
                   /\ wire' = Append(wire, [task |-> t, url |-> AuthUrl(tscope'[t]),
                                             auth |-> NoToken])
                   /\ auth_count' = auth_count + 1
        /\ ~StartsGetToken(t) => tsent'[t] <= tsent[t]
    /\ (\A t \in Tasks : ~StartsGetToken(t)) => auth_count' = auth_count
C7_CachedTokenReused == [][C7_Step]_vars

C7_Witness ==
    /\ now = 50
    /\ calls = 2
    /\ token_cache["transfer"] = Entry("tokA", 60)
    /\ tscope[1] = "transfer"
    /\ tpc[1] = "done"
    /\ tsent[1] = 0
    /\ tresult[1] = TokenValue("tokA")
    /\ auth_count = 1

\* C8: get_token never raises and sends at most one authentication request
\* per call; a 200 answer with a non-empty token stores
\* (token, now + 1 hour) under the scope and returns the token; any other
\* answer, and an exception, return None.
C8_Shape ==
    \A t \in Tasks :
        /\ tresult[t].kind # "error"
        /\ tsent[t] <= 1
        /\ tpc[t] = "done" => tresult[t].kind \in {"token", "None"}
C8_Completes ==
    \A t \in Tasks :
        (tpc[t] = "authInflight" /\ tpc'[t] = "done") =>
            LET a == tanswer'[t] IN
            IF a[1] = 200 /\ a[2] \in Tokens
            THEN /\ token_cache' = [token_cache EXCEPT ![tscope[t]] =
                                        [token |-> a[2], expiry |-> now + TokenLifetime]]
                 /\ tresult'[t] = TokenValue(a[2])
            ELSE tresult'[t] = ReturnedNone
C8_GetTokenOutcome == []C8_Shape /\ [][C8_Completes]_vars

C8_Witness ==
    /\ now = 55
    /\ tpc[1] = "done"
    /\ tanswer[1] = <<200, "tokB">>
    /\ tscope[1] = "enquiry"
    /\ token_cache["enquiry"] = Entry("tokB", 115)
    /\ tresult[1] = TokenValue("tokB")

\* C9: while a transfer_funds call runs, a POST /transfer is on the wire
\* only if the source and the destination were each validated before it in
\* this call and both results carry isValid = true; once a validation has
\* reported an invalid account or has failed, the call never reaches the
\* token request or the POST and, when it is over, has raised an error.
Posts(t) == {i \in 1..Len(wire) : wire[i].task = t /\ wire[i].url = TransferUrl}
ValidatedTrue(x) == x.kind = "info" /\ x.isValid = "true"
NotValidated(x) == x.kind = "error" \/ (x.kind = "info" /\ x.isValid # "true")
C9_TransferOnlyAfterValidation ==
    \A t \in Tasks :
        opc[t] # "idle" =>
            /\ \A i \in Posts(t) :
                  /\ ValidatedTrue(ofrom[t])
                  /\ ValidatedTrue(oto[t])
                  /\ \E j \in 1..(i - 1), k \in 1..(i - 1) :
                        /\ j < k
                        /\ wire[j].url = ValidateUrl(oreq[t].from_account)
                        /\ wire[k].url = ValidateUrl(oreq[t].to_account)
            /\ (NotValidated(ofrom[t]) \/ NotValidated(oto[t])) =>
                  /\ Posts(t) = {}
                  /\ opc[t] \in {"valTo", "done"}
                  /\ opc[t] = "done" => oresult[t].kind = "error"

C9_Witness ==
    /\ opc[1] = "post"
    /\ oreq[1].from_account = <<"A">>
    /\ oreq[1].to_account = <<"A", "A">>
    /\ ValidatedTrue(ofrom[1])
    /\ ValidatedTrue(oto[1])
    /\ Len(wire) = 3
    /\ wire[3].url = TransferUrl
    /\ ppc[1] = "inflight"

\* C10: once the source validation of a transfer_funds call has reported an
\* invalid account, the call sends no further request of any kind, and it
\* ends by raising BankingClientError 'Invalid source account'.  (Stated
\* for requests whose two identifiers are non-empty.)
SourceInvalid(t) ==
    /\ opc[t] # "idle"
    /\ oreq[t].from_account # <<>> /\ oreq[t].to_account # <<>>
    /\ ofrom[t].kind = "info" /\ ofrom[t].isValid # "true"
C10_Step ==
    \A t \in Tasks :
        SourceInvalid(t) =>
            /\ wire' = wire \/ opc'[t] = "idle"
            /\ opc'[t] = "done" =>
                  oresult'[t] = Raised("BankingClientError", "Invalid source account")
C10_InvalidSourceFailsImmediately == [][C10_Step]_vars

\* C11: when the pipeline hands validate_account a 404 response, the call
\* returns the record {accountId (normalised), isValid false, status
\* NOT_FOUND} and raises nothing, whatever reading the body would give; and
\* when every answer of the service was 404 the call has dispatched once.
Is404(o) == o = Answered(404)
C11_Step ==
    \A t \in Tasks :
        (vpc[t] = "request" /\ vpc'[t] = "done" /\ presult[t] = Response(404)) =>
            /\ vresult'[t].kind = "info"
            /\ vresult'[t].isValid = "false"
            /\ vresult'[t].status = "NOT_FOUND"
            /\ vresult'[t].accountId = vacct[t]
            /\ vacct[t] # <<>> /\ vacct[t] = Upper(Strip(vacct[t]))
            /\ AllOf(outcomes[t], Is404) => sent[t] = 1
C11_NotFoundOutcome == [][C11_Step]_vars

C11_Witness ==
    /\ opc[1] = "idle"
    /\ vpc[1] = "done"
    /\ vresult[1] = Info(<<"A", "A">>, "false", "NOT_FOUND")
    /\ Len(wire) = 1
    /\ wire[1].url = ValidateUrl(<<"A", "A">>)

\* C12: when the pipeline hands get_account_balance a 404 response, the call
\* ends in a not-found outcome and raises no error, as validate_account does.
C12_Step ==
    \A t \in Tasks :
        (bpc[t] = "request" /\ bpc'[t] = "done" /\ presult[t] = Response(404)) =>
            bresult'[t].kind # "error"
C12_BalanceNotFound == [][C12_Step]_vars

\* C13: get_transaction_history never sends a request to
\* /transactions/history without a bearer token: when get_token returns no
\* token the call raises BankingClientError("Authentication required for
\* transaction history") and nothing is handed to the pipeline; otherwise the
\* pipeline gets the returned token, keeps it for the whole call, and every
\* dispatch, retries included, carries it.
IsHistory(w) == w.url[2] = "/transactions/history"
C13_Step ==
    /\ \A i \in 1..Len(wire') : IsHistory(wire'[i]) => wire'[i].auth \in Tokens
    /\ \A t \in Tasks :
        /\ (hpc[t] = "token" /\ hpc'[t] # "token") =>
               IF tresult[t].kind = "token"
               THEN /\ hpc'[t] = "request"
                    /\ ppc'[t] = "pending"
                    /\ purl'[t] = HistoryUrl(hacct[t])
                    /\ pheaders'[t] = tresult[t].token
               ELSE /\ hpc'[t] = "done"
                    /\ hresult'[t] = Raised("BankingClientError",
                                            "Authentication required for transaction history")
                    /\ ppc'[t] = "idle"
                    /\ wire' = wire
        /\ (hpc[t] = "request" /\ hpc'[t] = "request") => pheaders'[t] = pheaders[t]
        /\ (hpc[t] = "request" /\ Len(wire') = Len(wire) + 1) =>
               /\ wire'[Len(wire')].url = HistoryUrl(hacct[t])
               /\ wire'[Len(wire')].auth = pheaders[t]
               /\ pheaders[t] \in Tokens
C13_HistoryNeedsToken == [][C13_Step]_vars

\* a history call whose first dispatch was retried, both with the token
C13_Witness ==
    /\ hpc[1] = "request"
    /\ \E i, j \in 1..Len(wire) :
          /\ i < j
          /\ IsHistory(wire[i]) /\ IsHistory(wire[j])
          /\ wire[i].auth = "tokA" /\ wire[j].auth = "tokA"

\* C14: in validate_account, get_account_balance and transfer_funds called
\* with use_auth, once get_token has returned the request is handed to the
\* pipeline in either case and the operation has not failed: with the
\* returned token as its Authorization header, or with no Authorization
\* header when get_token returned none.  The pipeline keeps the header for
\* the whole call and every dispatch carries it.
HeaderFor(res) == IF res.kind = "token" THEN res.token ELSE NoToken
HandedOn(t, url) ==
    /\ ppc'[t] = "pending"
    /\ purl'[t] = url
    /\ pheaders'[t] = HeaderFor(tresult[t])
C14_Step ==
    \A t \in Tasks :
        /\ (vpc[t] = "token" /\ vpc'[t] # "token") =>
               vpc'[t] = "request" /\ vresult'[t] = NoResult /\ HandedOn(t, ValidateUrl(vacct[t]))
        /\ (bpc[t] = "token" /\ bpc'[t] # "token") =>
               bpc'[t] = "request" /\ bresult'[t] = NoResult /\ HandedOn(t, BalanceUrl(bacct[t]))
        /\ (opc[t] = "token" /\ opc'[t] # "token") =>
               opc'[t] = "post" /\ oresult'[t] = NoResult /\ HandedOn(t, TransferUrl)
        /\ (ppc[t] # "idle" /\ ppc'[t] # "idle") => pheaders'[t] = pheaders[t]
        /\ (ppc[t] = "pending" /\ Len(wire') = Len(wire) + 1) =>
               /\ wire'[Len(wire')].url = purl[t]
               /\ wire'[Len(wire')].auth = pheaders[t]
C14_TokenOptional == [][C14_Step]_vars

\* a transfer with use_auth whose token request failed and whose POST went
\* out without a token and succeeded
C14_Witness ==
    /\ opc[1] = "done"
    /\ oauth[1]
    /\ oresult[1].kind = "TransferResponse"
    /\ Len(wire) = 4
    /\ wire[3].url = AuthUrl("transfer")
    /\ wire[4].url = TransferUrl
    /\ wire[4].auth = NoToken
    /\ token_cache["transfer"] = NoEntry

\* C15: the accesses to the token cache are serialised per scope: at any
\* time at most one authentication request for a scope is in flight.
Refreshing(sc) == {t \in Tasks : tpc[t] = "authInflight" /\ tscope[t] = sc}
C15_OneRefreshPerScope == \A sc \in Scopes : Cardinality(Refreshing(sc)) <= 1

\* C16: every constructed TransferRequest has non-empty source and
\* destination identifiers, each its own trimmed upper-cased form, and an
\* empty or whitespace-only identifier is rejected by the constructor.
Normalised(id) == id # <<>> /\ id = Upper(Strip(id))
C16_IdsRejectedAtConstruction ==
    /\ creq.kind = "request" => Normalised(creq.from_account) /\ Normalised(creq.to_account)
    /\ (cargs # <<>> /\ (Blank(cargs[1]) \/ Blank(cargs[2]))) => creq.kind = "error"

\* C17: the amount of every constructed TransferRequest is strictly
\* positive, at most 1,000,000, and a whole number of cents.
C17_StoredAmountInRange ==
    creq.kind = "request" =>
        creq.amount > 0 /\ creq.amount <= MaxAmount /\ creq.amount % 10 = 0

\* C18 (as stated): constructing a TransferRequest with an amount <= 0 raises
\* ValueError 'Amount must be positive', with an amount > 1,000,000
\* ValueError 'Amount exceeds maximum limit', and 1,000,000 is accepted.
C18_AmountErrors ==
    cargs # <<>> =>
        /\ cargs[3] <= 0 => creq = Raised("ValueError", "Amount must be positive")
        /\ cargs[3] > MaxAmount => creq = Raised("ValueError", "Amount exceeds maximum limit")
        /\ cargs[3] = MaxAmount => creq.kind = "request"

\* C18 (amended): constructing a TransferRequest with an amount <= 0 or
\* > 1,000,000 always raises ValueError, leaves no request object and sends
\* nothing; the message is 'Amount must be positive' resp. 'Amount exceeds
\* maximum limit' when both account ids are non-empty (the emptiness test
\* comes first, with 'Account IDs cannot be empty'), and with such ids the
\* amount 1,000,000 is accepted.
C18_Step ==
    cargs' # <<>> =>
        LET f == cargs'[1]
            g == cargs'[2]
            a == cargs'[3]
        IN  /\ (a <= 0 \/ a > MaxAmount) =>
                   /\ creq'.kind = "error" /\ creq'.type = "ValueError"
                   /\ (cargs' # cargs \/ creq' # creq) =>
                          UNCHANGED <<wire, auth_count, request_count>>
            /\ (f # <<>> /\ g # <<>> /\ a <= 0) =>
                   creq' = Raised("ValueError", "Amount must be positive")
            /\ (f # <<>> /\ g # <<>> /\ a > MaxAmount) =>
                   creq' = Raised("ValueError", "Amount exceeds maximum limit")
            /\ (f # <<>> /\ g # <<>> /\ a = MaxAmount) =>
                   creq'.kind = "request" /\ creq'.amount = MaxAmount
            /\ ((f = <<>> \/ g = <<>>) /\ (a <= 0 \/ a > MaxAmount)) =>
                   creq' = Raised("ValueError", "Account IDs cannot be empty")
C18_AmountRejected == [][C18_Step]_vars

C18_Witness ==
    /\ cargs = <<<<"a">>, <<"a">>, MaxAmount + 1>>
    /\ creq = Raised("ValueError", "Amount exceeds maximum limit")

\* C19: a constructed TransferRequest holds the amount rounded to cents and
\* the identifiers trimmed and upper-cased, and constructing a request from
\* the fields of a constructed request, whose identifiers are not blank,
\* gives the same fields again.
C19_Step ==
    /\ creq'.kind = "request" =>
           /\ creq'.from_account = Upper(Strip(cargs'[1]))
           /\ creq'.to_account = Upper(Strip(cargs'[2]))
           /\ creq'.amount = Round2(cargs'[3])
    /\ (/\ creq.kind = "request"
        /\ ~Blank(creq.from_account) /\ ~Blank(creq.to_account)
        /\ cargs' = <<creq.from_account, creq.to_account, creq.amount>>) =>
           creq' = creq
C19_NormalisationIdempotent == [][C19_Step]_vars

\* C20: validate_account and get_account_balance called with an empty or
\* whitespace-only account id, with or without use_auth, raise ValueError
\* 'Account ID cannot be empty' at once: nothing is sent, no token is asked
\* for, and the token cache and the request counter are unchanged.
NoIdGiven(acct) == acct = <<>> \/ Strip(acct) = <<>>
NothingDone(t) ==
    /\ UNCHANGED <<wire, auth_count, token_cache, request_count>>
    /\ tpc'[t] = tpc[t]
    /\ ppc'[t] = ppc[t]
C20_Step ==
    \A t \in Tasks :
        /\ (vpc[t] = "idle" /\ vpc'[t] # "idle" /\ NoIdGiven(vacct'[t])) =>
               /\ vpc'[t] = "done"
               /\ vresult'[t] = Raised("ValueError", "Account ID cannot be empty")
               /\ NothingDone(t)
        /\ (bpc[t] = "idle" /\ bpc'[t] # "idle" /\ NoIdGiven(bacct'[t])) =>
               /\ bpc'[t] = "done"
               /\ bresult'[t] = Raised("ValueError", "Account ID cannot be empty")
               /\ NothingDone(t)
C20_BlankIdFailsLocally == [][C20_Step]_vars

\* a get_account_balance(" ") that raised after an earlier call had already
\* counted a request
C20_Witness ==
    /\ bpc[1] = "done"
    /\ bacct[1] = <<" ">>
    /\ bresult[1] = Raised("ValueError", "Account ID cannot be empty")
    /\ wire = <<>>
    /\ request_count = 1
    /\ token_cache["enquiry"] # NoEntry

\* C21: the error a pipeline call raises when the retry budget is used up
\* by a response with status >= 500 is of another kind than the error raised
\* when the budget is used up by a network failure (BankingClientError
\* 'Network error'), so that a caller can tell the two.
LastOutcome(t) == outcomes[t][Len(outcomes[t])]
NetworkErrorRaised == Raised("BankingClientError", "Network error")
C21_RemoteErrorDistinct ==
    \A t \in Tasks :
        (ppc[t] = "raised" /\ outcomes[t] # <<>> /\ ServerError(LastOutcome(t))) =>
            presult[t] # NetworkErrorRaised

\* C22: a timeout of a dispatch is a retryable failure: while the retry
\* budget is not used up (attempt < max_retries) the call does not end on
\* it, but sleeps the backoff delay and dispatches again.
C22_TimeoutRetried ==
    \A t \in Tasks :
        (outcomes[t] # <<>> /\ LastOutcome(t) = TimeoutError /\ attempt[t] < max_retries) =>
            /\ ~Finished(t)
            /\ sleeps[t] = Doubling(retry_delay, Len(outcomes[t]))

\* C23: once the block of async with client is left, normally or by an
\* error of an operation (a failure after the retries included), the session
\* opened on entry is closed, and so is every session an earlier entry
\* opened.
C23_SessionClosedOnExit ==
    cm = "left" =>
        /\ session \in 1..Len(sessions)
        /\ \A i \in 1..Len(sessions) : sessions[i] = "closed"

\* the block was left by the error of a call whose retries were used up
C23_Witness ==
    /\ cm = "left"
    /\ cmexc = NetworkErrorRaised
    /\ max_retries = 1
    /\ request_count = 2
    /\ sessions = <<"closed">>

\* C24: a pipeline call in its backoff sleep, after a 5xx response or after
\* a network failure, holds no response of the shared session open.
Sleeping(t) == ppc[t] \in {"sleep5xx", "sleepNet"}
C24_SleepHoldsNothing == \A t \in Tasks : Sleeping(t) => ~held[t]

\* C25: the token cache always holds, per scope, nothing or one complete
\* pair of a non-empty token and an expiry; every change of an entry is the
\* write of one refresh, which stores in one step the token that refresh
\* received together with the time of the write plus one hour, also when
\* refreshes of the same scope run concurrently.
CompleteEntry(e) == e.token \in Tokens /\ e.token # "" /\ e.expiry >= TokenLifetime
C25_Step ==
    /\ DOMAIN token_cache' = Scopes
    /\ \A sc \in Scopes :
        /\ token_cache'[sc] = NoEntry \/ CompleteEntry(token_cache'[sc])
        /\ token_cache'[sc] # token_cache[sc] =>
               \E t \in Tasks :
                   /\ tpc[t] = "authInflight" /\ tpc'[t] = "done" /\ tscope[t] = sc
                   /\ tanswer'[t][1] = 200
                   /\ token_cache'[sc] = [token |-> tanswer'[t][2], expiry |-> now + TokenLifetime]
                   /\ tresult'[t] = TokenValue(tanswer'[t][2])
C25_EntryWrittenWhole == [][C25_Step]_vars

\* two concurrent refreshes of one scope got different tokens; the entry is
\* the pair of the later write
C25_Witness ==
    /\ tscope[1] = "transfer" /\ tscope[2] = "transfer"
    /\ tsent[1] = 1 /\ tsent[2] = 1
    /\ tresult[1] = TokenValue("tokA")
    /\ tresult[2] = TokenValue("tokB")
    /\ token_cache["transfer"] = [token |-> "tokB", expiry |-> FreshSpan + TokenLifetime]

\* C26: 5xx responses and network failures of one pipeline call share one
\* attempt counter: whatever the mix, the call dispatches at most
\* max_retries + 1 times, each dispatch is the one of the current attempt
\* index, and the i-th sleep of the call lasts retry_delay * 2^(i-1).
Retryable(o) == ServerError(o) \/ o = ClientError
C26_SharedAttemptCounter ==
    \A t \in Tasks :
        /\ sent[t] <= max_retries + 1
        /\ Len(outcomes[t]) <= sent[t]
        /\ ppc[t] \in {"inflight", "sleep5xx", "sleepNet", "returned", "raised"} =>
               sent[t] = attempt[t] + 1
        /\ ppc[t] = "pending" => sent[t] = attempt[t]
        /\ \A i \in 1..Len(sleeps[t]) :
               /\ Retryable(outcomes[t][i])
               /\ sleeps[t][i] = retry_delay * 2 ^ (i - 1)

\* a call that met a 500, a network failure and a 503, in this order
C26_Witness ==
    /\ max_retries = 2
    /\ retry_delay = 5
    /\ outcomes[1] = <<Answered(500), ClientError, Answered(503)>>
    /\ sleeps[1] = <<5, 10>>
    /\ sent[1] = 3
    /\ ppc[1] = "raised"

\* C27: a response the pipeline has returned is still open (not released)
\* when the operation that called the pipeline takes it and reads its body.
C27_ReturnedResponseOpen ==
    \A t \in Tasks : (ppc[t] = "returned" /\ presult[t].kind = "response") => held[t]

\* C28: a get_token call whose refresh fails (status other than 200, no
\* token in the answer, or an exception) leaves the whole token cache as it
\* was, and no step of a get_token call changes the entry of a scope other
\* than the one it was called for.
RefreshEnds(t) == tpc[t] = "authInflight" /\ tpc'[t] = "done"
C28_Step ==
    \A t \in Tasks :
        /\ (RefreshEnds(t) /\ tresult'[t].kind # "token") => token_cache' = token_cache
        /\ (tpc'[t] # tpc[t] /\ tpc'[t] # "idle") =>
               \A sc \in Scopes \ {tscope'[t]} : token_cache'[sc] = token_cache[sc]
C28_FailedRefreshKeepsCache == [][C28_Step]_vars

\* an expired entry is still in place after the refresh for it was refused,
\* next to the entry of the other scope
C28_Witness ==
    /\ tpc[1] = "done"
    /\ tscope[1] = "transfer"
    /\ tsent[1] = 1
    /\ tanswer[1] = <<401, MissingField>>
    /\ tresult[1] = ReturnedNone
    /\ token_cache["transfer"] = [token |-> "tokA", expiry |-> TokenLifetime]
    /\ token_cache["enquiry"] # NoEntry
    /\ now >= TokenLifetime

\* C29: the requests of one transfer_funds call go out in the order: source
\* validation (with its retries), destination validation, at most one token
\* request for scope 'transfer' (only with use_auth and only when the cache
\* has no fresh entry), POST /transfer.  The validation requests carry no
\* token, and a token request or POST is sent only after both validations
\* reported a valid account.
IsValidation(w) == w.url[2] = "/accounts/validate"
IsTokenRequest(w) == w.url[2] = "/authToken"
Rank(w) == IF IsValidation(w) THEN 1 ELSE IF IsTokenRequest(w) THEN 2 ELSE 3
C29_Order ==
    \A t \in Tasks :
        opc[t] # "idle" =>
            LET src == ValidateUrl(oreq[t].from_account)
                dst == ValidateUrl(oreq[t].to_account)
                n == Len(wire)
            IN  /\ \A i \in 1..n, j \in 1..n : i < j => Rank(wire[i]) <= Rank(wire[j])
                /\ \A i \in 1..n :
                       /\ IsValidation(wire[i]) =>
                              wire[i].auth = NoToken /\ wire[i].url \in {src, dst}
                       /\ IsTokenRequest(wire[i]) =>
                              wire[i].url = AuthUrl("transfer") /\ oauth[t]
                       /\ Rank(wire[i]) = 3 => wire[i].url = TransferUrl
                       /\ Rank(wire[i]) >= 2 => ValidatedTrue(ofrom[t]) /\ ValidatedTrue(oto[t])
                /\ src # dst =>
                       \A i \in 1..n, j \in 1..n : (i < j /\ wire[i].url = dst) => wire[j].url # src
                /\ opc[t] = "valFrom" => \A i \in 1..n : wire[i].url = src
                /\ Cardinality({i \in 1..n : IsTokenRequest(wire[i])}) <= 1
C29_Step ==
    /\ C29_Order'
    /\ \A t \in Tasks :
           (opc[t] # "idle" /\ auth_count' # auth_count) =>
               /\ opc'[t] = "token"
               /\ ~Fresh(now, token_cache["transfer"])
C29_TransferOrder == [][C29_Step]_vars

\* a transfer with use_auth whose requests were: source validation, retried
\* once, destination validation, token request, POST
C29_Witness ==
    /\ opc[1] = "post"
    /\ oauth[1]
    /\ oreq[1].from_account # oreq[1].to_account
    /\ Len(wire) = 5
    /\ wire[1].url = ValidateUrl(oreq[1].from_account)
    /\ wire[2].url = ValidateUrl(oreq[1].from_account)
    /\ wire[3].url = ValidateUrl(oreq[1].to_account)
    /\ wire[4].url = AuthUrl("transfer")
    /\ wire[5].url = TransferUrl
    /\ wire[5].auth = "tokA"

\* C30: total_requests of get_performance_stats, the value of
\* _request_count, is at every moment the number of requests the pipeline
\* has handed to the session, retries and failed attempts included and
\* authentication requests excluded, under every interleaving of concurrent
\* calls; it is 0 before any request.
total_requests == request_count
C30_CountsDispatches ==
    /\ total_requests = dispatch_count
    /\ (calls = 0) => total_requests = 0

\* task 1 is at its second attempt; task 2 has had one attempt of its own
\* while task 1 was waiting and now has a token request in flight
C30_Witness ==
    /\ total_requests = 3
    /\ auth_count = 1
    /\ sent[1] = 2
    /\ ppc[1] = "inflight"
    /\ tpc[2] = "authInflight"

\* C31: whenever a sequence of initialize() and close() calls on one client
\* ends with close(), every session an initialize() of that client opened is
\* closed: each close() call leaves no session of the client open.
AllSessionsClosed(ss) == \A i \in 1..Len(ss) : ss[i] = "closed"
C31_Step == (\E t \in Sequential : CloseCall(t)) => AllSessionsClosed(sessions')
C31_CloseLeavesNoneOpen == [][C31_Step]_vars

====
